---- MODULE Spec2Model ----
(***************************************************************************)
(* Model of xafv.py: remux of the first audio stream                      *)
(* (extract_audio_pure_python), frame sampling with solid-frame rejection *)
(* (extract_non_solid_frame, is_solid_color_image), the stream probe      *)
(* (is_video_with_audio), cover embedding (_read_and_optionally_resize,   *)
(* embed_cover) and the command line that chains them.                    *)
(*                                                                         *)
(* Optional values (Python None) are sequences: <<>> is None, <<v>> is v. *)
(* Times in seconds are integers counting milliseconds.                   *)
(***************************************************************************)
EXTENDS Integers, Sequences, FiniteSets, TLC

VARIABLES
    pc,             \* position of the running operation
    op,             \* the operation called ("" before any call)
    handles,        \* container handles opened by the operation, in order
    exc,            \* the exception in flight ("" when none)
    outcome,        \* how the operation ended
    fs,             \* file system: path -> file content
    \* ---- extract_audio_pure_python
    in_streams,     \* streams of the input container
    in_packets,     \* packets of the input file read so far, in file order
    eof,            \* the demuxer has reached the end of the input file
    audio_stream,   \* Optional index of the selected stream
    codec_name,
    output_filename,
    out_stream,     \* Optional record: the output stream and its copied parameters
    \* ---- extract_non_solid_frame
    args,           \* the call's arguments
    container_duration, \* Optional container.duration (av.time_base ticks)
    stream_duration,    \* Optional stream.duration (stream ticks)
    time_base_den,      \* stream.time_base = 1 / time_base_den seconds
    duration_seconds,   \* Optional resolved duration, milliseconds
    offsets,
    attempt,        \* i of the for loop (0-based); number of attempts begun is in seeks
    ts,             \* the clamped time of the current attempt, milliseconds
    seeks,          \* seek calls made so far: <<[off, ts, seek_ts, ok]>>
    position,       \* Optional container position (stream ticks) after the last seek
    decoded,        \* per attempt begun: Optional frame decoded
    img,            \* Optional frame held by the loop body
    out,            \* Optional path of the image just saved
    first_attempt_path,
    saved_path,
    \* ---- is_video_with_audio
    probe,          \* Optional <<has_video, has_audio>>
    \* ---- embed_cover
    prepared,       \* Optional result of _read_and_optionally_resize
    \* ---- __main__
    main            \* the command-line run: its position, arguments and locals

vars == <<pc, op, handles, exc, outcome, fs,
          in_streams, in_packets, eof, audio_stream, codec_name, output_filename, out_stream,
          args, container_duration, stream_duration, time_base_den, duration_seconds,
          offsets, attempt, ts, seeks, position, decoded, img, out,
          first_attempt_path, saved_path, probe, prepared, main>>

laterVars == <<prepared, main>>

remuxVars == <<in_packets, eof, audio_stream, codec_name, output_filename, out_stream>>

samplerVars == <<container_duration, stream_duration, time_base_den, duration_seconds,
                 offsets, attempt, ts, seeks, position, decoded, img, out,
                 first_attempt_path, saved_path>>

(***************************************************************************)
(* Bounds of the model.                                                    *)
(***************************************************************************)
MaxStreams == 2
MaxPackets == 2
MaxAttempts == 3

None == <<>>
Some(v) == <<v>>
Min(a, b) == IF a < b THEN a ELSE b
Max(a, b) == IF a > b THEN a ELSE b

(***************************************************************************)
(* Handles and the file system.                                            *)
(***************************************************************************)
OpenHandle(hs, what) == Append(hs, [what |-> what, closes |-> 0])

\* close() outside a finally: skipped while an exception is in flight.
CloseUnlessRaising(hs, k) == IF exc = "" THEN [hs EXCEPT ![k].closes = @ + 1] ELSE hs
CloseHandle(hs, k) == [hs EXCEPT ![k].closes = @ + 1]

WriteFile(f, path, content) ==
    [p \in (DOMAIN f) \cup {path} |-> IF p = path THEN content ELSE f[p]]

RemoveFile(f, path) == [p \in (DOMAIN f) \ {path} |-> f[p]]

NoOutcome == [kind |-> "none", value |-> ""]

\* No command-line run is in progress.
NoMain == [pc |-> "none"]
Returned(v) == [kind |-> "return", value |-> v]
Raised(e) == [kind |-> "raise", value |-> e]

(***************************************************************************)
(* Input containers.                                                       *)
(***************************************************************************)
CodecList == <<"aac", "mp3", "flac", "opus", "vorbis", "alac",
               "pcm_s16le", "pcm_s24le", "ac3", "dts">>

StreamTypes == {"audio", "video", "data"}

\* The k-th stream of a container whose audio codecs start at CodecList[c]:
\* audio streams at different positions carry different codecs.
MkStream(type, c, k) ==
    [type |-> type,
     codec |-> IF type = "audio"
               THEN CodecList[((c + k - 2) % Len(CodecList)) + 1]
               ELSE IF type = "video" THEN "h264" ELSE "bin_data",
     sample_rate |-> IF type = "audio" THEN 48000 ELSE 0,
     time_base_den |-> IF type = "audio" THEN 48000 ELSE 25]

InputContainers == UNION { {[k \in 1..n |-> MkStream(t[k], c, k)] :
                               t \in [1..n -> StreamTypes], c \in 1..Len(CodecList)} :
                           n \in 0..MaxStreams }

\* A packet read at file position k: payload and timestamps are those of the
\* position, the decode timestamp may be absent.
MkPacket(k, s, hasDts) ==
    [stream |-> s, dts |-> IF hasDts THEN Some(k * 1024) ELSE None,
     pts |-> Some(k * 1024), payload |-> k]

\* The empty packet demux() yields once the file is exhausted.
FlushPacket(s) == [stream |-> s, dts |-> None, pts |-> None, payload |-> 0]

(***************************************************************************)
(* Paths.  A path is <<stem, tag, pct, n, ext>>: "{stem}.{ext}" when tag   *)
(* is "", and "{stem}_{pct}pct_try{n}.{ext}" when tag is "pct_try".        *)
(***************************************************************************)
PlainPath(stem, ext) == <<stem, "", 0, 0, ext>>
\* A derived name that does not carry the attempt index.
TryPathShared(stem, pct, n, ext) == <<stem, "pct_try", pct, 1, ext>>
TryPath(stem, pct, n, ext) == <<stem, "pct_try", pct, n, ext>>
InputStem == "video"

(***************************************************************************)
(* extract_audio_pure_python                                               *)
(***************************************************************************)
extension_map ==
    [c \in {"aac", "mp3", "flac", "opus", "vorbis", "alac", "pcm_s16le"} |->
        CASE c = "aac" -> "m4a"
          [] c = "mp3" -> "mp3"
          [] c = "flac" -> "flac"
          [] c = "opus" -> "opus"
          [] c = "vorbis" -> "ogg"
          [] c = "alac" -> "m4a"
          [] c = "pcm_s16le" -> "wav"]

\* extension_map.get(codec_name, codec_name)
ExtensionOf(codec) ==
    IF codec \in DOMAIN extension_map THEN extension_map[codec] ELSE codec

\* The table of the ffmpeg-based extractor, ea.py.
ext_map ==
    [c \in {"opus", "vorbis", "aac", "mp3", "flac", "alac",
             "pcm_s16le", "pcm_s24le", "ac3", "dts"} |->
        CASE c = "opus" -> "opus"
          [] c = "vorbis" -> "ogg"
          [] c = "aac" -> "m4a"
          [] c = "mp3" -> "mp3"
          [] c = "flac" -> "flac"
          [] c = "alac" -> "m4a"
          [] c = "pcm_s16le" -> "wav"
          [] c = "pcm_s24le" -> "wav"
          [] c = "ac3" -> "ac3"
          [] c = "dts" -> "dts"]

EaExtensionOf(codec) == IF codec \in DOMAIN ext_map THEN ext_map[codec] ELSE "mka"

\* next((s for s in container.streams if s.type == "audio"), None)
FirstStreamOrNone(streams, type) == IF streams = <<>> THEN None ELSE Some(1)
FirstOfType(streams, type) ==
    LET idx == {k \in 1..Len(streams) : streams[k].type = type}
    IN  IF idx = {} THEN None ELSE Some(CHOOSE k \in idx : \A j \in idx : k <= j)

\* Lines 23-28: the existence check and av.open(input_video).
CallExtractAudio ==
    /\ pc = "idle"
    /\ UNCHANGED laterVars
    /\ op' = "extract_audio_pure_python"
    /\ \/ /\ outcome' = Raised("FileNotFoundError")     \* not os.path.isfile
          /\ pc' = "done"
          /\ UNCHANGED <<handles, in_streams>>
       \/ /\ outcome' = Raised("OpenError")             \* av.open raises
          /\ pc' = "done"
          /\ UNCHANGED <<handles, in_streams>>
       \/ \E input \in InputContainers :
            /\ in_streams' = input
            /\ handles' = OpenHandle(handles, "input")
            /\ pc' = "ea_select"
            /\ UNCHANGED outcome
    /\ UNCHANGED <<exc, fs, remuxVars, args, samplerVars, probe>>

\* Lines 30-42: stream selection, extension, output file name.
SelectAudioStream ==
    /\ pc = "ea_select"
    /\ UNCHANGED laterVars
    /\ audio_stream' = FirstOfType(in_streams, "audio")
    /\ IF audio_stream' = None
       THEN /\ exc' = "NoAudioStream"
            /\ pc' = "ea_close_in"
            /\ UNCHANGED <<codec_name, output_filename>>
       ELSE /\ codec_name' = in_streams[audio_stream'[1]].codec
            /\ output_filename' = Some(PlainPath(InputStem, ExtensionOf(codec_name')))
            /\ pc' = "ea_open_out"
            /\ UNCHANGED exc
    /\ UNCHANGED <<op, handles, outcome, fs, in_streams, in_packets, eof, out_stream,
                   args, samplerVars, probe>>

\* Line 44: av.open(output_filename, mode="w") creates the file or raises.
OpenOutput ==
    /\ pc = "ea_open_out"
    /\ UNCHANGED laterVars
    /\ \/ /\ handles' = OpenHandle(handles, "output")
          /\ fs' = WriteFile(fs, output_filename[1], [kind |-> "audio", packets |-> <<>>])
          /\ pc' = "ea_add_stream"
          /\ UNCHANGED exc
       \/ /\ exc' = "OpenOutputError"
          /\ pc' = "ea_close_in"
          /\ UNCHANGED <<handles, fs>>
    /\ UNCHANGED <<op, outcome, in_streams, remuxVars, args, samplerVars, probe>>

\* Lines 47-62: add_stream and the best-effort copies of sample_rate,
\* channel_layout and time_base (a failed setattr is swallowed).
AddStream ==
    /\ pc = "ea_add_stream"
    /\ UNCHANGED laterVars
    /\ \/ \E copied \in BOOLEAN :
             LET src == in_streams[audio_stream[1]] IN
             /\ out_stream' = Some([codec |-> codec_name,
                                    sample_rate |-> IF copied THEN src.sample_rate ELSE 0,
                                    time_base_den |-> IF copied THEN src.time_base_den ELSE 0])
             /\ pc' = "ea_demux"
             /\ UNCHANGED exc
       \/ /\ exc' = "AddStreamError"
          /\ pc' = "ea_close_out"
          /\ UNCHANGED out_stream
    /\ UNCHANGED <<op, handles, outcome, fs, in_streams, in_packets, eof, audio_stream,
                   codec_name, output_filename, args, samplerVars, probe>>

\* packet.stream = out_stream
Retarget(packet) == [packet EXCEPT !.stream = 0]

\* The loop body's test, line 66.
KeepAll(packet) == TRUE
Muxable(packet) == packet.dts # None

\* container.demux(audio_stream) passes on the packets of that stream only.
DemuxYields(packet, s) == packet.stream = s

\* out_container.mux(packet)
Mux(f, path, packet) ==
    WriteFile(f, path, [f[path] EXCEPT !.packets = Append(@, packet)])

\* Lines 65-69, one packet of the input file per step: the demuxer reads the
\* next packet of the file; the loop body sees it when it belongs to the
\* selected stream, skips it when it has no dts, and muxes it otherwise.
RemuxPacket ==
    /\ pc = "ea_demux"
    /\ UNCHANGED laterVars
    /\ ~eof
    /\ Len(in_packets) < MaxPackets
    /\ \E s \in 1..Len(in_streams), hasDts \in BOOLEAN :
         LET packet == MkPacket(Len(in_packets) + 1, s, hasDts) IN
         /\ in_packets' = Append(in_packets, packet)
         /\ IF DemuxYields(packet, audio_stream[1]) /\ Muxable(packet)
            THEN \/ /\ fs' = Mux(fs, output_filename[1], Retarget(packet))
                    /\ UNCHANGED <<exc, pc>>
                 \/ /\ exc' = "WriteFailure"
                    /\ pc' = "ea_close_out"
                    /\ UNCHANGED fs
            ELSE UNCHANGED <<fs, exc, pc>>
    /\ UNCHANGED <<op, handles, outcome, in_streams, eof, audio_stream, codec_name,
                   output_filename, out_stream, args, samplerVars, probe>>

\* End of the input file: demux() yields its empty flush packet (no dts), the
\* loop body skips it, and the loop ends.
RemuxEnd ==
    /\ pc = "ea_demux"
    /\ UNCHANGED laterVars
    /\ ~eof
    /\ eof' = TRUE
    /\ IF Muxable(FlushPacket(audio_stream[1]))
       THEN fs' = Mux(fs, output_filename[1], Retarget(FlushPacket(audio_stream[1])))
       ELSE UNCHANGED fs
    /\ pc' = "ea_close_out"
    /\ UNCHANGED <<op, handles, exc, outcome, in_streams, in_packets, audio_stream,
                   codec_name, output_filename, out_stream, args, samplerVars, probe>>

\* Line 71: out_container.close() in the inner finally; an error writing the
\* trailer replaces the exception in flight, the handle is released either way.
CloseOutput ==
    /\ pc = "ea_close_out"
    /\ UNCHANGED laterVars
    /\ handles' = CloseHandle(handles, 2)
    /\ \/ UNCHANGED exc
       \/ exc' = "CloseOutputError"
    /\ pc' = "ea_close_in"
    /\ UNCHANGED <<op, outcome, fs, in_streams, remuxVars, args, samplerVars, probe>>

\* Lines 73-75: container.close() in the outer finally, then the return or
\* the propagation of the exception in flight.
CloseInputAndReturn ==
    /\ pc = "ea_close_in"
    /\ UNCHANGED laterVars
    /\ handles' = CloseHandle(handles, 1)
    /\ outcome' = IF exc = "" THEN Returned(output_filename[1]) ELSE Raised(exc)
    /\ pc' = "done"
    /\ UNCHANGED <<op, exc, fs, in_streams, remuxVars, args, samplerVars, probe>>

(***************************************************************************)
(* is_solid_color_image                                                    *)
(*                                                                         *)
(* An image is [frame, h, w]; Pixel gives its pixels in row-major order.   *)
(***************************************************************************)
DownsampleLimit == 500000
DownsampleStride == 4

RECURSIVE SumRange(_, _, _)
SumRange(q, lo, hi) ==
    IF lo > hi THEN 0
    ELSE IF lo = hi THEN q[lo]
    ELSE LET mid == (lo + hi) \div 2
         IN  SumRange(q, lo, mid) + SumRange(q, mid + 1, hi)
SumSeq(q) == SumRange(q, 1, Len(q))

\* Frames a decode can yield.
FrameNames == {"black", "haze", "scene"}

\* The colour of the k-th pixel of a frame, in row-major order (np.array(pil_img)).
Pixel(frame, k) ==
    CASE frame = "black" -> <<0, 0, 0>>
      [] frame = "haze" -> <<100 + k, 100, 100>>
      [] frame = "scene" -> <<20 * k, 255 - (20 * k), 7>>
      \* a single-colour image
      [] frame = "flat100" -> <<30, 60, 90>>
      \* a 4x4 checkerboard of dark and bright squares, 16 distinct colours
      [] frame = "board" ->
           IF (((k - 1) \div 4) + ((k - 1) % 4)) % 2 = 0
           THEN <<k, k, k>> ELSE <<255 - k, 255 - k, 255 - k>>
      \* a 4x4 checkerboard of two close tints, 16 distinct colours
      [] frame = "pastel" ->
           IF (((k - 1) \div 4) + ((k - 1) % 4)) % 2 = 0
           THEN <<100 + k, 100, 100>> ELSE <<100 + k, 102, 100>>
      \* a 708x708 checkerboard of 2x2 squares, dark and bright, whose colour
      \* depends on the position within each 4x4 tile: 16 distinct colours
      [] frame = "tiles" ->
           LET r == ((k - 1) \div 708) % 4
               c == ((k - 1) % 708) % 4
               t == (4 * r) + c
           IN  IF ((r \div 2) + (c \div 2)) % 2 = 0
               THEN <<10 + t, 10 + t, 10 + t>>
               ELSE <<200 + t, 200 + t, 200 + t>>

\* A decoded frame as an RGB image: its shape, and its pixels through Pixel.
ImageOf(frame) ==
    CASE frame = "black" -> [frame |-> frame, h |-> 2, w |-> 2]
      [] frame \in {"haze", "scene"} -> [frame |-> frame, h |-> 3, w |-> 4]
      [] frame = "flat100" -> [frame |-> frame, h |-> 100, w |-> 100]
      [] frame \in {"board", "pastel"} -> [frame |-> frame, h |-> 4, w |-> 4]
      [] frame = "tiles" -> [frame |-> frame, h |-> 708, w |-> 708]

\* arr[::4, ::4] when h * w > 500_000, else arr; flattened by reshape(-1, 3).
Sample(image) ==
    IF image.h * image.w > DownsampleLimit
    THEN LET \* rows 0, 4, 8, ... below h and columns 0, 4, 8, ... below w
             sh == (image.h + DownsampleStride - 1) \div DownsampleStride
             sw == (image.w + DownsampleStride - 1) \div DownsampleStride
         IN  [k \in 1..(sh * sw) |->
                 Pixel(image.frame,
                       ((((k - 1) \div sw) * DownsampleStride) * image.w)
                       + (((k - 1) % sw) * DownsampleStride) + 1)]
    ELSE [k \in 1..(image.h * image.w) |-> Pixel(image.frame, k)]

\* np.all(sample.std(axis=0) <= tolerance): the population standard deviation
\* of a channel is <= tolerance iff n * sum(x^2) - sum(x)^2 <= tolerance^2 * n^2.
\* The deviation is taken from the first sample (the variance does not depend
\* on the origin) and the comparison is divided by n, rounding up, so that the
\* integers stay within 32 bits.
ChannelStdWithin(sample, ch, tolerance) ==
    LET n == Len(sample)
        c == sample[1][ch]
        xs == [k \in 1..n |-> sample[k][ch] - c]
        sq == [k \in 1..n |-> (sample[k][ch] - c) * (sample[k][ch] - c)]
        v == n * SumSeq(sq) - SumSeq(xs) * SumSeq(xs)
    IN  (v + n - 1) \div n <= tolerance * tolerance * n

\* The heuristic without its standard-deviation test.
SolidByColorCountOnly(image, tolerance, unique_color_threshold) ==
    LET sample == Sample(image)
        unique_colors == {sample[k] : k \in 1..Len(sample)}
    IN  Cardinality(unique_colors) <= unique_color_threshold

is_solid_color_image(image, tolerance, unique_color_threshold) ==
    LET sample == Sample(image)
        unique_colors == {sample[k] : k \in 1..Len(sample)}
    IN  \/ Cardinality(unique_colors) <= unique_color_threshold
        \/ \A ch \in 1..3 : ChannelStdWithin(sample, ch, tolerance)

\* Images and thresholds the heuristic is called with on its own.
TestImages == {"black", "haze", "scene", "flat100", "board", "pastel", "tiles"}
Tolerances == {0, 5, 60, 130}
ColorThresholds == {1, 10, 12, 16}

(***************************************************************************)
(* extract_non_solid_frame                                                 *)
(***************************************************************************)
av_time_base == 1000000
\* Times in seconds are integers in units of the 1e-3 s of line 136.
UnitsPerSecond == 1000
Epsilon == 1
DefaultTolerance == 5
DefaultUniqueColors == 10

\* Inputs of the model: percent in hundredths, step_seconds in milliseconds.
Percents == {0, 10, 100, 150}
StepSeconds == {500}
OutputPaths == {None, Some(PlainPath("cover", "png"))}
ContainerDurations == {None, Some(0), Some(100 * av_time_base)}   \* absent, 0 s, 100 s
StreamDurations == {None, Some(1250)}
TimeBaseDens == {25}
ProbeContainers ==
    { <<>>, <<MkStream("audio", 1, 1)>>, <<MkStream("video", 1, 1)>>,
      <<MkStream("audio", 1, 1), MkStream("video", 1, 2)>> }

\* Lines 110-119: float(container.duration) / float(av.time_base), or
\* float(stream.duration) * float(stream.time_base), in milliseconds.
ResolveStreamFirst(cd, sd, den) ==
    IF sd # None THEN Some((sd[1] * UnitsPerSecond) \div den)
    ELSE IF cd # None THEN Some(cd[1] \div (av_time_base \div UnitsPerSecond))
    ELSE None
ResolveDuration(cd, sd, den) ==
    IF cd # None THEN Some(cd[1] \div (av_time_base \div UnitsPerSecond))
    ELSE IF sd # None THEN Some((sd[1] * UnitsPerSecond) \div den)
    ELSE None

\* Line 121: duration_seconds * percent.
TargetTime(duration, percent) == (duration * percent) \div 100

\* Lines 124-128: offsets = [0.0]; for i in range(1, max_attempts): append.
OffsetAtSameSign(i, step_seconds) == ((i + 1) \div 2) * step_seconds
OffsetAt(i, step_seconds) ==
    IF i = 0 THEN 0
    ELSE (IF i % 2 = 1 THEN -1 ELSE 1) * ((i + 1) \div 2) * step_seconds

BuildOffsets(max_attempts, step_seconds) ==
    [k \in 1..Max(1, max_attempts) |-> OffsetAt(k - 1, step_seconds)]

\* offsets[:max_attempts]
Truncated(q, n) == SubSeq(q, 1, Min(Len(q), Max(0, n)))

\* Line 136: max(0.0, min(ts, duration_seconds - 1e-3))
ClampUpperOnly(t, duration) == Min(t, duration - Epsilon)
Clamp(t, duration) == Max(0, Min(t, duration - Epsilon))

\* Line 138: int(ts / time_base_seconds), truncation towards zero of ts >= 0.
SeekTs(t, den) == (t * den) \div UnitsPerSecond

\* Lines 146-150.
Truthy(path) == path # None /\ path[1] # ""
OutPath(a, i) ==
    IF Truthy(a.output_path) THEN a.output_path[1]
    ELSE TryPath(InputStem, a.percent, i + 1, a.image_format)

\* Lines 94-103: argument checks and av.open(input_path).
CallExtractFrame ==
    /\ pc = "idle"
    /\ UNCHANGED laterVars
    /\ op' = "extract_non_solid_frame"
    /\ \E percent \in Percents, output_path \in OutputPaths,
          max_attempts \in 0..MaxAttempts, step_seconds \in StepSeconds :
         /\ args' = [percent |-> percent, output_path |-> output_path,
                     image_format |-> "png", max_attempts |-> max_attempts,
                     step_seconds |-> step_seconds, tolerance |-> DefaultTolerance,
                     unique_color_threshold |-> DefaultUniqueColors]
         /\ \/ /\ outcome' = Raised("FileNotFoundError")     \* not os.path.isfile
               /\ pc' = "done"
               /\ UNCHANGED <<handles, in_streams>>
            \/ /\ ~(0 <= percent /\ percent <= 100)
               /\ outcome' = Raised("PercentOutOfRange")
               /\ pc' = "done"
               /\ UNCHANGED <<handles, in_streams>>
            \/ /\ 0 <= percent /\ percent <= 100
               /\ outcome' = Raised("OpenError")             \* av.open raises
               /\ pc' = "done"
               /\ UNCHANGED <<handles, in_streams>>
            \/ /\ 0 <= percent /\ percent <= 100
               /\ \E input \in ProbeContainers :
                    /\ in_streams' = input
                    /\ handles' = OpenHandle(handles, "input")
                    /\ pc' = "sf_select"
                    /\ UNCHANGED outcome
    /\ UNCHANGED <<exc, fs, remuxVars, samplerVars, probe>>

\* Lines 105-107.
SelectVideoStream ==
    /\ pc = "sf_select"
    /\ UNCHANGED laterVars
    /\ IF FirstOfType(in_streams, "video") = None
       THEN /\ exc' = "NoVideoStream"
            /\ pc' = "sf_close"
       ELSE /\ pc' = "sf_duration"
            /\ UNCHANGED exc
    /\ UNCHANGED <<op, handles, outcome, fs, in_streams, remuxVars, args, samplerVars, probe>>

\* Lines 110-132: the duration, the target time and the offsets.
DetermineDuration ==
    /\ pc = "sf_duration"
    /\ UNCHANGED laterVars
    /\ \E cd \in ContainerDurations, sd \in StreamDurations, den \in TimeBaseDens :
         /\ container_duration' = cd
         /\ stream_duration' = sd
         /\ time_base_den' = den
         /\ duration_seconds' = ResolveDuration(cd, sd, den)
    /\ IF duration_seconds' = None
       THEN /\ exc' = "DurationUnknown"
            /\ pc' = "sf_close"
            /\ UNCHANGED offsets
       ELSE /\ offsets' = BuildOffsets(args.max_attempts, args.step_seconds)
            /\ pc' = IF Truncated(offsets', args.max_attempts) = <<>>
                     THEN "sf_finish" ELSE "sf_seek"
            /\ UNCHANGED exc
    /\ UNCHANGED <<op, handles, outcome, fs, in_streams, remuxVars, args, attempt, ts,
                   seeks, position, decoded, img, out, first_attempt_path, saved_path, probe>>

\* A seek whose failure is not caught.
SeekRaises ==
    /\ pc = "sf_seek"
    /\ UNCHANGED laterVars
    /\ ts' = Clamp(TargetTime(duration_seconds[1], args.percent) + offsets[attempt + 1],
                   duration_seconds[1])
    /\ \E ok \in BOOLEAN :
         /\ seeks' = Append(seeks, [off |-> offsets[attempt + 1], ts |-> ts',
                                    seek_ts |-> SeekTs(ts', time_base_den), ok |-> ok])
         /\ position' = IF ok THEN Some(SeekTs(ts', time_base_den)) ELSE position
         /\ pc' = IF ok THEN "sf_decode" ELSE "sf_close"
         /\ exc' = IF ok THEN exc ELSE "SeekError"
    /\ UNCHANGED <<op, handles, outcome, fs, in_streams, remuxVars, args,
                   container_duration, stream_duration, time_base_den, duration_seconds,
                   offsets, attempt, decoded, img, out, first_attempt_path, saved_path, probe>>
\* Lines 135-142: the clamped time, its tick and the best-effort seek.
Seek ==
    /\ pc = "sf_seek"
    /\ UNCHANGED laterVars
    /\ ts' = Clamp(TargetTime(duration_seconds[1], args.percent) + offsets[attempt + 1],
                   duration_seconds[1])
    /\ \E ok \in BOOLEAN :
         /\ seeks' = Append(seeks, [off |-> offsets[attempt + 1], ts |-> ts',
                                    seek_ts |-> SeekTs(ts', time_base_den), ok |-> ok])
         /\ position' = IF ok THEN Some(SeekTs(ts', time_base_den)) ELSE position
    /\ pc' = "sf_decode"
    /\ UNCHANGED <<op, handles, exc, outcome, fs, in_streams, remuxVars, args,
                   container_duration, stream_duration, time_base_den, duration_seconds,
                   offsets, attempt, decoded, img, out, first_attempt_path, saved_path, probe>>

\* The for loop's step to the next offset, or its end (lines 134, 165-166).
AfterAttemptNoBreak(saved, i) ==
    IF i + 1 >= Len(Truncated(offsets, args.max_attempts))
    THEN "sf_finish" ELSE "sf_seek"
AfterAttempt(saved, i) ==
    IF Truthy(saved) \/ i + 1 >= Len(Truncated(offsets, args.max_attempts))
    THEN "sf_finish" ELSE "sf_seek"

\* Lines 144-153: the first frame container.decode yields, if any, is saved.
Decode ==
    /\ pc = "sf_decode"
    /\ UNCHANGED laterVars
    /\ \/ \E frame \in FrameNames :
            /\ decoded' = Append(decoded, Some(frame))
            /\ img' = Some(frame)
            /\ out' = Some(OutPath(args, attempt))
            /\ fs' = WriteFile(fs, out'[1], [kind |-> "image", frame |-> frame])
            /\ first_attempt_path' = IF first_attempt_path = None THEN out'
                                     ELSE first_attempt_path
            /\ pc' = "sf_classify"
            /\ UNCHANGED attempt
       \/ /\ decoded' = Append(decoded, None)
          /\ pc' = AfterAttempt(saved_path, attempt)
          /\ attempt' = IF pc' = "sf_seek" THEN attempt + 1 ELSE attempt
          /\ UNCHANGED <<img, out, fs, first_attempt_path>>
    /\ UNCHANGED <<op, handles, exc, outcome, in_streams, remuxVars, args,
                   container_duration, stream_duration, time_base_den, duration_seconds,
                   offsets, ts, seeks, position, saved_path, probe>>

\* Lines 155-166: classification, removal of a rejected image, loop exit.
RemoveAlways(f, path, first) == RemoveFile(f, path)
RemoveRejected(f, path, first) ==
    IF Some(path) # first THEN RemoveFile(f, path) ELSE f

Classify ==
    /\ pc = "sf_classify"
    /\ UNCHANGED laterVars
    /\ IF ~is_solid_color_image(ImageOf(img[1]), args.tolerance, args.unique_color_threshold)
       THEN /\ saved_path' = out
            /\ UNCHANGED fs
       ELSE /\ \/ fs' = RemoveRejected(fs, out[1], first_attempt_path)
               \/ /\ Some(out[1]) # first_attempt_path    \* os.remove raises: swallowed
                  /\ UNCHANGED fs
            /\ UNCHANGED saved_path
    /\ pc' = AfterAttempt(saved_path', attempt)
    /\ attempt' = IF pc' = "sf_seek" THEN attempt + 1 ELSE attempt
    /\ UNCHANGED <<op, handles, exc, outcome, in_streams, remuxVars, args,
                   container_duration, stream_duration, time_base_den, duration_seconds,
                   offsets, ts, seeks, position, decoded, img, out, first_attempt_path, probe>>

\* Lines 168-171: the fallback to the first image, or the failure.
Finish ==
    /\ pc = "sf_finish"
    /\ UNCHANGED laterVars
    /\ IF saved_path = None
       THEN IF first_attempt_path = None
            THEN /\ exc' = "NoFrameDecoded"
                 /\ UNCHANGED saved_path
            ELSE /\ saved_path' = first_attempt_path
                 /\ UNCHANGED exc
       ELSE UNCHANGED <<exc, saved_path>>
    /\ pc' = "sf_close"
    /\ UNCHANGED <<op, handles, outcome, fs, in_streams, remuxVars, args,
                   container_duration, stream_duration, time_base_den, duration_seconds,
                   offsets, attempt, ts, seeks, position, decoded, img, out,
                   first_attempt_path, probe>>

\* Lines 173-175: container.close() in the finally, then return or raise.
CloseAndReturnFrame ==
    /\ pc = "sf_close"
    /\ UNCHANGED laterVars
    /\ handles' = CloseHandle(handles, 1)
    /\ outcome' = IF exc = "" THEN Returned(saved_path[1]) ELSE Raised(exc)
    /\ pc' = "done"
    /\ UNCHANGED <<op, exc, fs, in_streams, remuxVars, args, samplerVars, probe>>

(***************************************************************************)
(* is_video_with_audio                                                     *)
(***************************************************************************)
\* Lines 271-276.
CallProbe ==
    /\ pc = "idle"
    /\ UNCHANGED laterVars
    /\ op' = "is_video_with_audio"
    /\ \/ /\ probe' = Some(<<FALSE, FALSE>>)   \* not a file, or av.open raises
          /\ outcome' = Returned(<<FALSE, FALSE>>)
          /\ pc' = "done"
          /\ UNCHANGED <<handles, in_streams>>
       \/ \E input \in InputContainers :
            /\ in_streams' = input
            /\ handles' = OpenHandle(handles, "input")
            /\ pc' = "pv_probe"
            /\ UNCHANGED <<outcome, probe>>
    /\ UNCHANGED <<exc, fs, remuxVars, args, samplerVars>>

\* Lines 277-282.
ProbeStreams ==
    /\ pc = "pv_probe"
    /\ UNCHANGED laterVars
    /\ probe' = Some(<<FirstOfType(in_streams, "video") # None,
                       FirstOfType(in_streams, "audio") # None>>)
    /\ handles' = CloseHandle(handles, 1)
    /\ outcome' = Returned(probe'[1])
    /\ pc' = "done"
    /\ UNCHANGED <<op, exc, fs, in_streams, remuxVars, args, samplerVars>>

(***************************************************************************)
(* _read_and_optionally_resize and embed_cover                             *)
(***************************************************************************)
MaxCovers == 2        \* cover entries an audio file may hold before the call
MaxEmbedCalls == 2    \* calls of embed_cover in a row

JpegQuality == 90
PictureDepth == 24
FrontCover == 3

\* Line 210 and line 211, without the dot.
AtomExtensions == {"m4a", "mp4", "m4b", "m4r"}
OpusExtension == "opus"
\* str.lower() on the extensions of the model.
Lower(x) ==
    CASE x = "M4B" -> "m4b"
      [] x = "OPUS" -> "opus"
      [] x = "METADATA_BLOCK_PICTURE" -> "metadata_block_picture"
      [] x = "TITLE" -> "title"
      [] OTHER -> x
EmbedExtensions == {"m4a", "M4B", "opus", "ogg", "mp3"}

\* The bytes of an encoded image: who encoded it and how, and what it shows.
Bytes(encoder, format, quality, optimize, w, h, pixels) ==
    [encoder |-> encoder, format |-> format, quality |-> quality,
     optimize |-> optimize, w |-> w, h |-> h, pixels |-> pixels]

\* An image file: one written by the sampler (img.save(out), line 151) holds a
\* frame; any other holds bytes of its own.
ImageFormatOfExt(e) == IF e \in {"jpg", "jpeg"} THEN "JPEG" ELSE IF e = "png" THEN "PNG" ELSE e
FileBytes(path, file) ==
    IF "frame" \in DOMAIN file
    THEN Bytes("PIL", ImageFormatOfExt(Lower(path[5])), None, FALSE,
               ImageOf(file.frame).w, ImageOf(file.frame).h, file.frame)
    ELSE file.bytes

\* Image files given to embed_cover: format and size.
ImageFormats == {"JPEG", "PNG", "WEBP"}
ImageSizes == {<<4000, 3000>>, <<3000, 4000>>, <<4000, 1>>, <<22, 11>>, <<640, 480>>}
MaxSides == {None, Some(0), Some(15), Some(1200), Some(4000)}
ArtPath == PlainPath("art", "img")
ArtFiles ==
    { [kind |-> "image", bytes |-> Bytes("other", f, None, FALSE, sz[1], sz[2], "art")] :
        f \in ImageFormats, sz \in ImageSizes }

\* Line 183.
MimeOf(fmt) == IF fmt \in {"JPEG", "JPG"} THEN "image/jpeg" ELSE "image/" \o Lower(fmt)

\* Triples <<side, max_size, longest>> for which int(side * (max_size /
\* float(longest))) in IEEE double arithmetic is one below the exact quotient
\* side * max_size / longest.
FloatShort == { <<22, 15, 22>> }
\* Lines 188-189: scale = max_size / float(longest); int(side * scale).
ScaledSide(side, max_size, longest) ==
    IF <<side, max_size, longest>> \in FloatShort
    THEN ((side * max_size) \div longest) - 1
    ELSE (side * max_size) \div longest

\* Lines 184-190: the size the image is saved with.
NewSize(w, h, max_size) ==
    IF max_size # None /\ max_size[1] # 0 /\ Max(w, h) > max_size[1]
    THEN <<ScaledSide(w, max_size[1], Max(w, h)), ScaledSide(h, max_size[1], Max(w, h))>>
    ELSE <<w, h>>

\* Lines 191-197: im.save(buf, format=fmt[, quality=quality, optimize=True]).
Reencode(b, size) ==
    Bytes("PIL", b.format,
          IF b.format \in {"JPEG", "JPG"} THEN Some(JpegQuality) ELSE None,
          b.format \in {"JPEG", "JPG"},
          size[1], size[2], b.pixels)

\* Audio files given to embed_cover: what the content is, and its tags.  The
\* tags of an atom-based file are absent (no ilst atom) or a mapping from atom
\* name to values; those of a comment-block file are a list of <<key, value>>.
OldCover(k) == [data |-> Bytes("other", "JPEG", None, FALSE, 300, 300, "old"),
                imageformat |-> "JPEG", nr |-> k]
AtomTags(n) ==
    IF n = 0 THEN [k \in {"nam"} |-> <<"Song">>]
    ELSE [k \in {"nam", "covr"} |->
             IF k = "nam" THEN <<"Song">> ELSE [j \in 1..n |-> OldCover(j)]]
\* Picture.write() and base64.b64encode(...).decode("ascii"), with their inverses.
PictureWrite(pic) == <<"flac-picture", pic>>
PictureParse(block) == block[2]
B64Encode(x) == <<"base64", x>>
B64Decode(x) == x[2]
OldPicture == B64Encode(PictureWrite([type |-> FrontCover, mime |-> "image/jpeg",
                  desc |-> "old", width |-> 300, height |-> 300, depth |-> PictureDepth,
                  data |-> Bytes("other", "JPEG", None, FALSE, 300, 300, "old")]))
CommentLists ==
    { <<>>,
      << <<"TITLE", "Song">>, <<"artist", "A">>, <<"artist", "B">> >>,
      << <<"title", "Song">>, <<"metadata_block_picture", OldPicture>> >>,
      << <<"METADATA_BLOCK_PICTURE", OldPicture>>, <<"title", "Song">> >> }
AudioContents ==
    {[family |-> "mp4", tags |-> None]}
    \cup {[family |-> "mp4", tags |-> Some(AtomTags(n))] : n \in 0..MaxCovers}
    \cup {[family |-> "opus", tags |-> c] : c \in CommentLists}
    \cup {[family |-> "other", tags |-> <<>>]}
AudioFile(content) ==
    [kind |-> "audio", packets |-> <<MkPacket(1, 1, TRUE)>>,
     family |-> content.family, tags |-> content.tags]

\* What mutagen finds in an audio file.  A file written by the remuxer is of the
\* family of its muxer and carries the muxer's encoder tag.
FamilyOf(path, file) ==
    IF "family" \in DOMAIN file THEN file.family
    ELSE IF Lower(path[5]) \in AtomExtensions THEN "mp4"
    ELSE IF Lower(path[5]) = OpusExtension THEN "opus"
    ELSE "other"
TagsOf(path, file) ==
    IF "tags" \in DOMAIN file THEN file.tags
    ELSE IF FamilyOf(path, file) = "mp4" THEN Some([k \in {"too"} |-> <<"Lavf">>])
    ELSE IF FamilyOf(path, file) = "opus" THEN << <<"encoder", "Lavf">> >>
    ELSE <<>>
WithTags(path, file, tags) ==
    [kind |-> "audio", packets |-> file.packets,
     family |-> FamilyOf(path, file), tags |-> tags]

\* mp4.tags["covr"] = [cover], lines 217 and 245.
AppendCover(tags, cover) ==
    [k \in DOMAIN tags \cup {"covr"} |->
        IF k # "covr" THEN tags[k]
        ELSE IF "covr" \in DOMAIN tags THEN Append(tags["covr"], cover) ELSE <<cover>>]
SetCover(tags, cover) ==
    [k \in DOMAIN tags \cup {"covr"} |-> IF k = "covr" THEN <<cover>> ELSE tags[k]]

\* tags["metadata_block_picture"] = [b64] on a comment list, lines 234 and 259:
\* the comments of that key, in any case, are dropped and the value is appended.
AppendComment(tags, key, value) == Append(tags, <<key, value>>)
SetComment(tags, key, value) ==
    Append(SelectSeq(tags, LAMBDA c : Lower(c[1]) # Lower(key)), <<key, value>>)

\* Lines 203-206 and the call of line 208.
BeginEmbed(audio_path, image_path, max_image_side) ==
    /\ op' = "embed_cover"
    /\ args' = [audio_path |-> audio_path, image_path |-> image_path,
                max_image_side |-> max_image_side]
    /\ prepared' = None
    /\ IF audio_path \notin DOMAIN fs \/ image_path \notin DOMAIN fs
       THEN /\ pc' = "done"
            /\ exc' = "FileNotFoundError"
            /\ outcome' = Raised("FileNotFoundError")
       ELSE /\ pc' = "ec_read"
            /\ exc' = ""
            /\ outcome' = NoOutcome

CallEmbed ==
    /\ \/ pc = "idle"
       \/ pc = "done" /\ op = "embed_cover" /\ Len(handles) < MaxEmbedCalls
    /\ main = NoMain
    /\ \E audio_path \in {p \in DOMAIN fs : fs[p].kind = "audio"}
                          \cup {PlainPath("absent", "m4a")},
          image_path \in {p \in DOMAIN fs : fs[p].kind = "image"}
                          \cup {PlainPath("absent", "png")},
          max_image_side \in MaxSides :
         BeginEmbed(audio_path, image_path, max_image_side)
    /\ UNCHANGED <<handles, fs, in_streams, remuxVars, samplerVars, probe, main>>

\* _read_and_optionally_resize, lines 180-199.  A side scaled down to 0 makes
\* im.resize or im.save raise in some builds of the imaging library and gives
\* an image with a side of 0 in others.
ReadAndResize ==
    /\ pc = "ec_read"
    /\ LET b == FileBytes(args.image_path, fs[args.image_path])
           size == NewSize(b.w, b.h, args.max_image_side)
       IN  /\ handles' = CloseHandle(OpenHandle(handles, "image"), Len(handles) + 1)
           /\ \/ /\ prepared' = Some([data |-> Reencode(b, size), mime |-> MimeOf(b.format),
                                      width |-> size[1], height |-> size[2]])
                 /\ pc' = "ec_dispatch"
                 /\ UNCHANGED <<exc, outcome>>
              \/ /\ size[1] = 0 \/ size[2] = 0
                 /\ exc' = "ValueError"
                 /\ outcome' = Raised("ValueError")
                 /\ pc' = "done"
                 /\ UNCHANGED prepared
    /\ UNCHANGED <<op, fs, in_streams, remuxVars, args, samplerVars, probe, main>>

\* A dispatch that leaves everything to detection.
PathByDetectionOnly(ext) == "ec_detect"
\* Lines 209-213, 221 and 240.
PathOfExtension(ext) ==
    IF Lower(ext) \in AtomExtensions THEN "ec_mp4"
    ELSE IF Lower(ext) = OpusExtension THEN "ec_opus"
    ELSE "ec_detect"
Dispatch ==
    /\ pc = "ec_dispatch"
    /\ pc' = PathOfExtension(args.audio_path[5])
    /\ UNCHANGED <<op, handles, exc, outcome, fs, in_streams, remuxVars, args,
                   samplerVars, probe, laterVars>>

\* Lines 241-264: MutagenFile(audio_path) and the isinstance tests.
Detect ==
    /\ pc = "ec_detect"
    /\ LET family == FamilyOf(args.audio_path, fs[args.audio_path])
       IN  IF family = "mp4" THEN pc' = "ec_mp4" /\ UNCHANGED <<exc, outcome>>
           ELSE IF family = "opus" THEN pc' = "ec_opus" /\ UNCHANGED <<exc, outcome>>
           ELSE /\ pc' = "done"
                /\ exc' = "UnsupportedContainer"
                /\ outcome' = Raised("UnsupportedContainer")
    /\ UNCHANGED <<op, handles, fs, in_streams, remuxVars, args, samplerVars, probe,
                   laterVars>>

\* Lines 213-219 (and 243-247): MP4(audio_path) fails on a file that is not
\* atom-based; item assignment on absent tags raises TypeError.
EmbedMp4 ==
    /\ pc = "ec_mp4"
    /\ LET file == fs[args.audio_path]
           tags == TagsOf(args.audio_path, file)
           cover == [data |-> prepared[1].data,
                     imageformat |-> IF prepared[1].mime = "image/jpeg"
                                     THEN "JPEG" ELSE "PNG"]
       IN  IF FamilyOf(args.audio_path, file) # "mp4"
           THEN /\ exc' = "MutagenError"
                /\ outcome' = Raised("MutagenError")
                /\ UNCHANGED fs
           ELSE IF tags = None
           THEN /\ exc' = "TypeError"
                /\ outcome' = Raised("TypeError")
                /\ UNCHANGED fs
           ELSE /\ fs' = WriteFile(fs, args.audio_path,
                                   WithTags(args.audio_path, file,
                                            Some(SetCover(tags[1], cover))))
                /\ outcome' = Returned(args.audio_path)
                /\ UNCHANGED exc
    /\ pc' = "done"
    /\ UNCHANGED <<op, handles, in_streams, remuxVars, args, samplerVars, probe,
                   laterVars>>

\* Lines 221-237 (and 248-262): with no comment at all, opus.tags or {} is a
\* plain dict, which save() cannot write.
EmbedOpus ==
    /\ pc = "ec_opus"
    /\ LET file == fs[args.audio_path]
           tags == TagsOf(args.audio_path, file)
           pic == [type |-> FrontCover, mime |-> prepared[1].mime, desc |-> "Cover (front)",
                   width |-> prepared[1].width, height |-> prepared[1].height,
                   depth |-> PictureDepth, data |-> prepared[1].data]
           b64 == B64Encode(PictureWrite(pic))
       IN  IF FamilyOf(args.audio_path, file) # "opus"
           THEN /\ exc' = "MutagenError"
                /\ outcome' = Raised("MutagenError")
                /\ UNCHANGED fs
           ELSE IF tags = <<>>
           THEN /\ exc' = "AttributeError"
                /\ outcome' = Raised("AttributeError")
                /\ UNCHANGED fs
           ELSE /\ fs' = WriteFile(fs, args.audio_path,
                                   WithTags(args.audio_path, file,
                                            SetComment(tags, "metadata_block_picture", b64)))
                /\ outcome' = Returned(args.audio_path)
                /\ UNCHANGED exc
    /\ pc' = "done"
    /\ UNCHANGED <<op, handles, in_streams, remuxVars, args, samplerVars, probe,
                   laterVars>>

(***************************************************************************)
(* The command line, lines 288-333                                         *)
(***************************************************************************)
DefaultMaxAttempts == 7
MaxMainAttempts == 1        \* cap on the attempts of the sampler within a run
DefaultPercent == 10          \* percent=0.1, in hundredths

\* Line 286.
SupportedExtensions == {"m4a", "mp4", "m4b", "m4r", "opus"}
SupportsEverything(path) == TRUE
is_supported_for_embedding(path) == Lower(path[5]) \in SupportedExtensions

\* Input files of a run: no stream, audio only, video only, and a video stream
\* followed by an audio stream of each codec.
MainContainers ==
    { <<>>, <<MkStream("audio", 1, 1)>>, <<MkStream("video", 1, 1)>> }
    \cup { <<MkStream("video", 1, 1), MkStream("audio", c, 2)>> : c \in 1..Len(CodecList) }
\* --max-image-side: absent or not an integer, or an integer.
MainMaxSides == {None, Some(2)}

\* The locals of a call that has not started.
FreshRemux ==
    /\ in_packets' = <<>>
    /\ eof' = FALSE
    /\ audio_stream' = None
    /\ codec_name' = ""
    /\ output_filename' = None
    /\ out_stream' = None
FreshSampler ==
    /\ container_duration' = None
    /\ stream_duration' = None
    /\ time_base_den' = 1
    /\ duration_seconds' = None
    /\ offsets' = <<>>
    /\ attempt' = 0
    /\ ts' = 0
    /\ seeks' = <<>>
    /\ position' = None
    /\ decoded' = <<>>
    /\ img' = None
    /\ out' = None
    /\ first_attempt_path' = None
    /\ saved_path' = None

Exit(m, code, lines) ==
    [m EXCEPT !.pc = "exited", !.exit = Some(code), !.printed = m.printed \o lines]

\* Lines 291-305: usage, --max-image-side, the isfile test and the call of
\* is_video_with_audio (lines 271-276).
MainStart ==
    /\ pc = "idle" /\ main = NoMain
    /\ \E max_image_side \in MainMaxSides :
         LET m == [pc |-> "probe", video |-> <<>>, max_image_side |-> max_image_side,
                   audio_out |-> None, image_out |-> None, exit |-> None,
                   printed |-> <<>>]
         IN  \/ /\ main' = Exit(m, 1, <<"Usage">>)               \* no argument
                /\ UNCHANGED <<pc, op, handles, in_streams, outcome, probe>>
             \/ /\ main' = Exit(m, 2, <<"Error: file not found">>)
                /\ UNCHANGED <<pc, op, handles, in_streams, outcome, probe>>
             \/ /\ main' = m                                      \* av.open raises
                /\ op' = "is_video_with_audio"
                /\ probe' = Some(<<FALSE, FALSE>>)
                /\ outcome' = Returned(<<FALSE, FALSE>>)
                /\ pc' = "done"
                /\ UNCHANGED <<handles, in_streams>>
             \/ \E video \in MainContainers :
                  /\ main' = [m EXCEPT !.video = video]
                  /\ op' = "is_video_with_audio"
                  /\ in_streams' = video
                  /\ handles' = OpenHandle(<<>>, "input")
                  /\ pc' = "pv_probe"
                  /\ UNCHANGED <<outcome, probe>>
    /\ UNCHANGED <<exc, fs, remuxVars, args, samplerVars, prepared>>

\* Lines 306-314: the two stream tests, then the call of
\* extract_audio_pure_python (lines 23-29) on the same file.
MainAfterProbe ==
    /\ main.pc = "probe" /\ pc = "done"
    /\ IF ~probe[1][1]
       THEN /\ main' = Exit(main, 3, <<"Error: input does not contain a video stream.">>)
            /\ UNCHANGED <<pc, op, handles, exc, outcome, in_streams, remuxVars>>
       ELSE IF ~probe[1][2]
       THEN /\ main' = Exit(main, 4, <<"Error: input does not contain an audio stream.">>)
            /\ UNCHANGED <<pc, op, handles, exc, outcome, in_streams, remuxVars>>
       ELSE /\ main' = [main EXCEPT !.pc = "remux",
                                    !.printed = Append(@, "Extracting audio...")]
            /\ op' = "extract_audio_pure_python"
            /\ in_streams' = main.video
            /\ handles' = OpenHandle(<<>>, "input")
            /\ exc' = ""
            /\ outcome' = NoOutcome
            /\ FreshRemux
            /\ pc' = "ea_select"
    /\ UNCHANGED <<fs, args, samplerVars, probe, prepared>>

\* Lines 315-319 and 328-331: a failed extraction ends the run; otherwise the
\* extension test, then the call of extract_non_solid_frame(video_in, percent=0.1)
\* (lines 94-104) with its defaults, the attempts being capped by MaxMainAttempts.
AfterRemuxIgnoringFailure ==
    /\ main.pc = "remux" /\ pc = "done"
    /\ LET audio_out == PlainPath(InputStem, ExtensionOf(codec_name))
       IN  IF ~is_supported_for_embedding(audio_out)
           THEN /\ main' = Exit([main EXCEPT !.audio_out = Some(audio_out)], 0,
                                <<"Audio saved to:">>)
                /\ UNCHANGED <<pc, op, handles, exc, outcome, in_streams, args, samplerVars>>
           ELSE /\ main' = [main EXCEPT !.pc = "sample", !.audio_out = Some(audio_out),
                                !.printed = @ \o <<"Audio saved to:",
                                                   "Extracting non-solid frame at 10%...">>]
                /\ op' = "extract_non_solid_frame"
                /\ args' = [percent |-> DefaultPercent, output_path |-> None,
                            image_format |-> "png",
                            max_attempts |-> Min(DefaultMaxAttempts, MaxMainAttempts),
                            step_seconds |-> 500, tolerance |-> DefaultTolerance,
                            unique_color_threshold |-> DefaultUniqueColors]
                /\ in_streams' = main.video
                /\ handles' = OpenHandle(<<>>, "input")
                /\ exc' = ""
                /\ outcome' = NoOutcome
                /\ FreshSampler
                /\ pc' = "sf_select"
    /\ UNCHANGED <<fs, remuxVars, probe, prepared>>
MainAfterRemux ==
    /\ main.pc = "remux" /\ pc = "done"
    /\ IF outcome.kind = "raise"
       THEN /\ main' = Exit(main, 10, <<"An error occurred:">>)
            /\ UNCHANGED <<pc, op, handles, exc, outcome, in_streams, args, samplerVars>>
       ELSE IF ~is_supported_for_embedding(outcome.value)
       THEN /\ main' = Exit([main EXCEPT !.audio_out = Some(outcome.value)], 0,
                            <<"Audio saved to:">>)
            /\ UNCHANGED <<pc, op, handles, exc, outcome, in_streams, args, samplerVars>>
       ELSE /\ main' = [main EXCEPT !.pc = "sample", !.audio_out = Some(outcome.value),
                            !.printed = @ \o <<"Audio saved to:",
                                               "Extracting non-solid frame at 10%...">>]
            /\ op' = "extract_non_solid_frame"
            /\ args' = [percent |-> DefaultPercent, output_path |-> None,
                        image_format |-> "png",
                        max_attempts |-> Min(DefaultMaxAttempts, MaxMainAttempts),
                        step_seconds |-> 500, tolerance |-> DefaultTolerance,
                        unique_color_threshold |-> DefaultUniqueColors]
            /\ in_streams' = main.video
            /\ handles' = OpenHandle(<<>>, "input")
            /\ exc' = ""
            /\ outcome' = NoOutcome
            /\ FreshSampler
            /\ pc' = "sf_select"
    /\ UNCHANGED <<fs, remuxVars, probe, prepared>>

\* Lines 320-324 and 328-331: a failed sampling ends the run; otherwise the call
\* of embed_cover(audio_out, image_out, max_image_side=max_image_side).
MainAfterSample ==
    /\ main.pc = "sample" /\ pc = "done"
    /\ IF outcome.kind = "raise"
       THEN /\ main' = Exit(main, 10, <<"An error occurred:">>)
            /\ UNCHANGED <<pc, op, handles, exc, outcome, args, prepared, samplerVars>>
       ELSE /\ main' = [main EXCEPT !.pc = "embed", !.image_out = Some(outcome.value),
                            !.printed = @ \o <<"Image saved to:",
                                               "Embedding cover into audio...">>]
            /\ handles' = <<>>
            /\ FreshSampler
            /\ BeginEmbed(main.audio_out[1], outcome.value, main.max_image_side)
    /\ UNCHANGED <<fs, in_streams, remuxVars, probe>>

\* Lines 325 and 328-331: the end of the run.
MainAfterEmbed ==
    /\ main.pc = "embed" /\ pc = "done"
    /\ main' = IF outcome.kind = "raise"
               THEN Exit(main, 10, <<"An error occurred:">>)
               ELSE Exit(main, 0, <<"Done. Cover embedded into:">>)
    /\ UNCHANGED <<pc, op, handles, exc, outcome, fs, in_streams, remuxVars, args,
                   samplerVars, probe, prepared>>

(***************************************************************************)
(* Specification                                                           *)
(***************************************************************************)
NoArgs == [percent |-> 0, output_path |-> None, image_format |-> "",
           max_attempts |-> 0, step_seconds |-> 0, tolerance |-> 0,
           unique_color_threshold |-> 0]

\* is_solid_color_image(pil_img, tolerance, unique_color_threshold), line 80.
CallSolid ==
    /\ pc = "idle"
    /\ op' = "is_solid_color_image"
    /\ \E image \in TestImages, tolerance \in Tolerances,
          unique_color_threshold \in ColorThresholds :
         /\ img' = Some(image)
         /\ args' = [NoArgs EXCEPT !.tolerance = tolerance,
                                   !.unique_color_threshold = unique_color_threshold]
    /\ pc' = "ic_classify"
    /\ UNCHANGED <<handles, exc, outcome, fs, in_streams, remuxVars, container_duration,
                   stream_duration, time_base_den, duration_seconds, offsets, attempt,
                   ts, seeks, position, decoded, out, first_attempt_path, saved_path,
                   probe, laterVars>>

\* Lines 81-92: sample, count the distinct colours, compare the deviations.
ClassifyImage ==
    /\ pc = "ic_classify"
    /\ outcome' = Returned(is_solid_color_image(ImageOf(img[1]), args.tolerance,
                                                args.unique_color_threshold))
    /\ pc' = "done"
    /\ UNCHANGED <<op, handles, exc, fs, in_streams, remuxVars, args, container_duration,
                   stream_duration, time_base_den, duration_seconds, offsets, attempt,
                   ts, seeks, position, decoded, img, out, first_attempt_path,
                   saved_path, probe, laterVars>>

Init ==
    /\ pc = "idle"
    /\ op = ""
    /\ handles = <<>>
    /\ exc = ""
    /\ outcome = NoOutcome
    /\ fs = <<>>
    /\ in_streams = <<>>
    /\ in_packets = <<>>
    /\ eof = FALSE
    /\ audio_stream = None
    /\ codec_name = ""
    /\ output_filename = None
    /\ out_stream = None
    /\ args = NoArgs
    /\ container_duration = None
    /\ stream_duration = None
    /\ time_base_den = 1
    /\ duration_seconds = None
    /\ offsets = <<>>
    /\ attempt = 0
    /\ ts = 0
    /\ seeks = <<>>
    /\ position = None
    /\ decoded = <<>>
    /\ img = None
    /\ out = None
    /\ first_attempt_path = None
    /\ saved_path = None
    /\ probe = None
    /\ prepared = None
    /\ main = NoMain

Next ==
    \/ CallExtractAudio
    \/ SelectAudioStream
    \/ OpenOutput
    \/ AddStream
    \/ RemuxPacket
    \/ RemuxEnd
    \/ CloseOutput
    \/ CloseInputAndReturn
    \/ CallExtractFrame
    \/ SelectVideoStream
    \/ DetermineDuration
    \/ Seek
    \/ Decode
    \/ Classify
    \/ Finish
    \/ CloseAndReturnFrame
    \/ CallProbe
    \/ ProbeStreams

Spec == Init /\ [][Next]_vars

\* An audio file and an image file are on disk when embed_cover is called.
InitEmbed ==
    /\ pc = "idle"
    /\ op = ""
    /\ handles = <<>>
    /\ exc = ""
    /\ outcome = NoOutcome
    /\ \E ext \in EmbedExtensions, content \in AudioContents, art \in ArtFiles :
         fs = WriteFile(WriteFile(<<>>, PlainPath(InputStem, ext), AudioFile(content)),
                        ArtPath, art)
    /\ in_streams = <<>>
    /\ in_packets = <<>>
    /\ eof = FALSE
    /\ audio_stream = None
    /\ codec_name = ""
    /\ output_filename = None
    /\ out_stream = None
    /\ args = NoArgs
    /\ container_duration = None
    /\ stream_duration = None
    /\ time_base_den = 1
    /\ duration_seconds = None
    /\ offsets = <<>>
    /\ attempt = 0
    /\ ts = 0
    /\ seeks = <<>>
    /\ position = None
    /\ decoded = <<>>
    /\ img = None
    /\ out = None
    /\ first_attempt_path = None
    /\ saved_path = None
    /\ probe = None
    /\ prepared = None
    /\ main = NoMain
NextEmbed == CallEmbed \/ ReadAndResize \/ Dispatch \/ Detect \/ EmbedMp4 \/ EmbedOpus
SpecEmbed == InitEmbed /\ [][NextEmbed]_vars

\* A run of the command line.  Detect is not among its steps: the extension test
\* of line 317 lets embed_cover be called only with an extension it dispatches on.
NextMain ==
    \/ MainStart
    \/ ProbeStreams
    \/ MainAfterProbe
    \/ SelectAudioStream
    \/ OpenOutput
    \/ AddStream
    \/ RemuxPacket
    \/ RemuxEnd
    \/ CloseOutput
    \/ CloseInputAndReturn
    \/ MainAfterRemux
    \/ SelectVideoStream
    \/ DetermineDuration
    \/ Seek
    \/ Decode
    \/ Classify
    \/ Finish
    \/ CloseAndReturnFrame
    \/ MainAfterSample
    \/ ReadAndResize
    \/ Dispatch
    \/ EmbedMp4
    \/ EmbedOpus
    \/ MainAfterEmbed
SpecMain == Init /\ [][NextMain]_vars

\* The heuristic called on its own.
NextSolid == CallSolid \/ ClassifyImage
SpecSolid == Init /\ [][NextSolid]_vars

(***************************************************************************)
(* Properties                                                              *)
(***************************************************************************)
InRemux == op = "extract_audio_pure_python"
InSampler == op = "extract_non_solid_frame"

AudioIndices == {k \in 1..Len(in_streams) : in_streams[k].type = "audio"}
HasAudio == AudioIndices # {}
IsFirstAudio(k) == k \in AudioIndices /\ \A j \in 1..(k - 1) : j \notin AudioIndices

\* What reaches the output of a remux: payload and timestamps of a packet.
Essence(packet) == [dts |-> packet.dts, pts |-> packet.pts, payload |-> packet.payload]

FromFirstAudioWithDts(packet) == IsFirstAudio(packet.stream) /\ packet.dts # None

ExpectedMux ==
    LET kept == SelectSeq(in_packets, FromFirstAudioWithDts)
    IN  [k \in 1..Len(kept) |-> Essence(kept[k])]

MuxedEssence ==
    LET written == fs[output_filename[1]].packets
    IN  [k \in 1..Len(written) |-> Essence(written[k])]

IsPrefix(a, b) == Len(a) <= Len(b) /\ \A k \in 1..Len(a) : a[k] = b[k]

OutputExists == output_filename # None /\ output_filename[1] \in DOMAIN fs

\* C1: the packets muxed into the output are, at every moment, a prefix of the
\* packets of the first audio stream that carry a decode timestamp, in file
\* order, with payload and timestamps unchanged; when the remux returns they
\* are exactly that sequence for the whole input file.
C1_RemuxExactlyFirstAudio ==
    (InRemux /\ OutputExists) =>
        /\ IsPrefix(MuxedEssence, ExpectedMux)
        /\ (pc = "done" /\ outcome.kind = "return") =>
              /\ eof
              /\ MuxedEssence = ExpectedMux
              /\ outcome.value = output_filename[1]

\* A returned remux that muxed a packet, dropped one without decode timestamp
\* of the selected stream and skipped one of another stream's.
C1_Witness ==
    /\ InRemux /\ pc = "done" /\ outcome.kind = "return"
    /\ Len(fs[outcome.value].packets) >= 1
    /\ Len(in_packets) > Len(fs[outcome.value].packets)
    /\ \E k \in 1..Len(in_packets) :
          \/ IsFirstAudio(in_packets[k].stream) /\ in_packets[k].dts = None
          \/ ~IsFirstAudio(in_packets[k].stream) /\ in_packets[k].dts # None

\* C2: on an input without audio stream the remux raises NoAudioStream, never
\* opens an output container and leaves the file system as it was.
C2_NoAudioNoOutput ==
    (InRemux /\ handles # <<>> /\ ~HasAudio) =>
        /\ DOMAIN fs = {}
        /\ \A k \in 1..Len(handles) : handles[k].what # "output"
        /\ output_filename = None
        /\ pc = "done" => outcome = Raised("NoAudioStream")

C2_Witness ==
    /\ InRemux /\ pc = "done" /\ ~HasAudio /\ Len(in_streams) >= 1
    /\ outcome = Raised("NoAudioStream")

\* C3: when an operation has returned or raised, every container handle it
\* opened has been closed exactly once; no handle is ever closed twice.
C3_HandlesClosedOnce ==
    /\ \A k \in 1..Len(handles) : handles[k].closes <= 1
    /\ pc = "done" => \A k \in 1..Len(handles) : handles[k].closes = 1

\* The remux raised while closing its output, with both of its handles opened.
C3_Witness ==
    /\ InRemux /\ pc = "done" /\ Len(handles) = 2
    /\ outcome = Raised("CloseOutputError")

\* The extension table as the specification states it.
ClaimedExtensions ==
    [c \in {"opus", "vorbis", "aac", "alac", "flac", "pcm_s16le", "pcm_s24le"} |->
        CASE c = "opus" -> "opus"
          [] c = "vorbis" -> "ogg"
          [] c = "aac" -> "m4a"
          [] c = "alac" -> "m4a"
          [] c = "flac" -> "flac"
          [] c = "pcm_s16le" -> "wav"
          [] c = "pcm_s24le" -> "wav"]

AllCodecs == {CodecList[k] : k \in 1..Len(CodecList)}

\* C4: the extension of the remuxer's output file is the table's entry for the
\* codec, and one and the same generic extension for every codec outside it.
C4_ExtensionTable ==
    (InRemux /\ output_filename # None) =>
        LET ext == output_filename[1][5] IN
        IF codec_name \in DOMAIN ClaimedExtensions
        THEN ext = ClaimedExtensions[codec_name]
        ELSE \A c \in AllCodecs \ DOMAIN ClaimedExtensions : ExtensionOf(c) = ext

\* The sampler has passed its duration step (lines 110-119).
DurationStepDone ==
    /\ InSampler /\ handles # <<>>
    /\ FirstOfType(in_streams, "video") # None
    /\ pc \in {"sf_seek", "sf_decode", "sf_classify", "sf_finish", "sf_close", "done"}

\* The offset of the attempt with 0-based index i, as the specification
\* states it: 0, -s, +s, -2s, +2s, ...
ClaimedOffset(i, s) ==
    IF i = 0 THEN 0
    ELSE IF i % 2 = 1 THEN 0 - (((i + 1) \div 2) * s) ELSE (i \div 2) * s

C6_SeekTimeInRange ==
    DurationStepDone =>
        \A k \in 1..Len(seeks) :
            /\ 0 <= seeks[k].ts
            /\ seeks[k].ts <= duration_seconds[1] - Epsilon

\* C6, amended: the time of attempt i is max(0, min(duration * fraction +
\* offset_i, duration - epsilon)); it is never negative, it is at most
\* duration - epsilon whenever duration >= epsilon and it is 0 when duration <
\* epsilon; the first seek of a 100 s video at fraction 0.1 is at 10 s.
C6_SeekTimeClamped ==
    DurationStepDone =>
        \A k \in 1..Len(seeks) :
            LET d == duration_seconds[1]
                raw == ((d * args.percent) \div 100)
                       + ClaimedOffset(k - 1, args.step_seconds)
                t == seeks[k].ts
            IN  /\ t >= 0
                /\ d >= Epsilon => t <= d - Epsilon
                /\ d < Epsilon => t = 0
                /\ (0 <= raw /\ raw <= d - Epsilon) => t = raw
                /\ (raw < 0) => t = 0
                /\ (raw > d - Epsilon /\ d >= Epsilon) => t = d - Epsilon
                /\ (k = 1 /\ d = 100 * UnitsPerSecond /\ args.percent = 10) =>
                      /\ t = 10 * UnitsPerSecond
                      /\ 2 * t >= 19 * UnitsPerSecond
                      /\ 2 * t <= 21 * UnitsPerSecond
                /\ seeks[k].seek_ts * UnitsPerSecond <= t * time_base_den
                /\ (seeks[k].seek_ts + 1) * UnitsPerSecond > t * time_base_den

\* A second attempt whose raw time is negative and was clamped to 0.
C6_Witness ==
    /\ InSampler /\ Len(seeks) >= 2
    /\ duration_seconds # None /\ duration_seconds[1] >= Epsilon
    /\ args.percent = 0
    /\ seeks[2].off < 0 /\ seeks[2].ts = 0

\* The classification of each frame under the thresholds every call of the
\* model passes (the defaults of line 96).
SolidFrames ==
    {f \in FrameNames :
        is_solid_color_image(ImageOf(f), DefaultTolerance, DefaultUniqueColors)}
IsSolidFrame(f) == f \in SolidFrames

\* Attempts (1-based) that decoded a frame, and those classified non-solid.
DecodedAttempts == {k \in 1..Len(decoded) : decoded[k] # None}
NonSolidAttempts == {k \in DecodedAttempts : ~IsSolidFrame(decoded[k][1])}
FirstDecodedAttempt == CHOOSE k \in DecodedAttempts : \A j \in DecodedAttempts : k <= j

\* The image path of attempt k (1-based).
PathOfAttempt(k) ==
    IF args.output_path # None THEN args.output_path[1]
    ELSE <<InputStem, "pct_try", args.percent, k, args.image_format>>

HoldsFrame(path, frame) ==
    path \in DOMAIN fs /\ fs[path] = [kind |-> "image", frame |-> frame]

\* C7: an attempt whose frame is classified non-solid is the last attempt: no
\* later offset is sought or decoded, and the operation returns the path of
\* that attempt's image, which exists and holds that frame.
C7_FirstNonSolidWins ==
    InSampler =>
        \A k \in NonSolidAttempts :
            /\ k = Len(decoded)
            /\ Len(seeks) = k
            /\ \A j \in 1..(k - 1) : j \notin NonSolidAttempts
            /\ HoldsFrame(PathOfAttempt(k), decoded[k][1])
            /\ pc = "done" => outcome = Returned(PathOfAttempt(k))

\* The second of three attempts was the first non-solid one, after a solid one.
C7_Witness ==
    /\ InSampler /\ pc = "done"
    /\ args.max_attempts >= 3
    /\ NonSolidAttempts = {2}
    /\ 1 \in DecodedAttempts

\* C8: when every decoded frame is solid and at least one frame was decoded,
\* the operation returns, and the file at the returned path holds the frame of
\* the first attempt that decoded one.
C8_FallbackIsFirstImage ==
    (InSampler /\ pc = "done" /\ DecodedAttempts # {} /\ NonSolidAttempts = {}) =>
        /\ outcome.kind = "return"
        /\ HoldsFrame(outcome.value, decoded[FirstDecodedAttempt][1])

C10_DurationResolution ==
    DurationStepDone =>
        /\ container_duration # None =>
              /\ duration_seconds # None
              /\ duration_seconds[1] * (av_time_base \div UnitsPerSecond)
                    = container_duration[1]
        /\ (container_duration = None /\ stream_duration # None) =>
              /\ duration_seconds # None
              /\ duration_seconds[1] * time_base_den = stream_duration[1] * UnitsPerSecond
        /\ (container_duration = None /\ stream_duration = None) =>
              /\ duration_seconds = None
              /\ exc = "DurationUnknown"
              /\ seeks = <<>> /\ decoded = <<>> /\ position = None
              /\ DOMAIN fs = {}
              /\ pc = "done" => outcome = Raised("DurationUnknown")
        /\ exc = "DurationUnknown" => (container_duration = None /\ stream_duration = None)

\* Both durations are present and differ: the container's was taken.
C10_Witness ==
    /\ DurationStepDone /\ pc = "sf_seek"
    /\ container_duration # None /\ stream_duration # None
    /\ container_duration[1] > 0
    /\ duration_seconds[1] * time_base_den # stream_duration[1] * UnitsPerSecond

\* The position the container is left at by the seeks made so far: the tick of
\* the last seek that succeeded.
PositionAfter(q) ==
    LET oks == {k \in 1..Len(q) : q[k].ok}
    IN  IF oks = {} THEN None
        ELSE Some(q[CHOOSE k \in oks : \A j \in oks : j <= k].seek_ts)

\* C18: a failed seek never makes the operation raise; it leaves the container
\* where it was, the decode of the same attempt is still made from there, and
\* the later attempts are made as after a successful seek.
C18_SeekFailureSwallowed ==
    (DurationStepDone /\ duration_seconds # None) =>
        /\ position = PositionAfter(seeks)
        /\ exc \in {"", "NoFrameDecoded"}
        /\ pc = "sf_decode" => Len(decoded) + 1 = Len(seeks)
        /\ pc # "sf_decode" => Len(decoded) = Len(seeks)
        /\ (pc = "done" /\ NonSolidAttempts = {}) =>
              Len(seeks) = Max(0, args.max_attempts)
        /\ pc = "done" => outcome.kind = "return" \/ outcome = Raised("NoFrameDecoded")

\* The first seek failed, its attempt still decoded a frame from the initial
\* position, and the attempts went on to the last one.
C18_Witness ==
    /\ InSampler /\ pc = "done"
    /\ args.max_attempts >= 3
    /\ Len(seeks) = args.max_attempts
    /\ ~seeks[1].ok /\ decoded[1] # None
    /\ seeks[2].ok /\ ~seeks[3].ok
    /\ outcome.kind = "return"

\* The image files the sampler has created that still exist.
ImageFiles == {p \in DOMAIN fs : fs[p].kind = "image"}
FirstPersistedPath == PathOfAttempt(FirstDecodedAttempt)

RemovalFailed ==
    {k \in DecodedAttempts : /\ IsSolidFrame(decoded[k][1])
                             /\ k # FirstDecodedAttempt
                             /\ PathOfAttempt(k) \in DOMAIN fs
                             /\ (pc = "sf_classify" => k # Len(decoded))}

SampleFacts(name) ==
    CASE name = "black"   -> [n |-> 4,     distinct |-> 1,  v |-> 0,       colors |-> 1]
      [] name = "haze"    -> [n |-> 12,    distinct |-> 12, v |-> 1716,    colors |-> 12]
      [] name = "scene"   -> [n |-> 12,    distinct |-> 12, v |-> 686400,  colors |-> 12]
      [] name = "flat100" -> [n |-> 10000, distinct |-> 1,  v |-> 0,       colors |-> 1]
      [] name = "board"   -> [n |-> 16,    distinct |-> 16, v |-> 3630656, colors |-> 16]
      [] name = "pastel"  -> [n |-> 16,    distinct |-> 16, v |-> 5440,    colors |-> 16]
      \* 177 of the 708 rows and columns are sampled, all at position (0, 0) of a tile
      [] name = "tiles"   -> [n |-> 177 * 177, distinct |-> 1, v |-> 0,    colors |-> 16]
Checkerboards == {"board", "pastel", "tiles"}

SolidReturned == op = "is_solid_color_image" /\ pc = "done"
StdWithin(name, tolerance) ==
    LET f == SampleFacts(name)
    IN  (f.v + f.n - 1) \div f.n <= tolerance * tolerance * f.n

\* C11 as stated: the heuristic returns true exactly when the sample holds at
\* most unique_color_threshold distinct colours or every channel's standard
\* deviation over the sample is at most tolerance; with the defaults the
\* single-colour 100x100 image is solid and every checkerboard image with more
\* than 10 distinct colours is non-solid.
C11_EveryColourfulCheckerboardNonSolid ==
    SolidReturned =>
        /\ outcome.value = (\/ SampleFacts(img[1]).distinct <= args.unique_color_threshold
                            \/ StdWithin(img[1], args.tolerance))
        /\ (/\ args.tolerance = DefaultTolerance
            /\ args.unique_color_threshold = DefaultUniqueColors) =>
              /\ img[1] = "flat100" => outcome.value = TRUE
              /\ (img[1] \in Checkerboards /\ SampleFacts(img[1]).colors > 10) =>
                    outcome.value = FALSE

\* C11, amended: ... with the defaults the single-colour 100x100 image is solid,
\* and a checkerboard image is non-solid when its sample holds more than 10
\* distinct colours and some channel's standard deviation over the sample is
\* above 5.
C11_SolidIffFewColoursOrLowDeviation ==
    SolidReturned =>
        /\ outcome.kind = "return"
        /\ outcome.value = (\/ SampleFacts(img[1]).distinct <= args.unique_color_threshold
                            \/ StdWithin(img[1], args.tolerance))
        /\ (/\ args.tolerance = DefaultTolerance
            /\ args.unique_color_threshold = DefaultUniqueColors) =>
              /\ img[1] = "flat100" => outcome.value = TRUE
              /\ (/\ img[1] \in Checkerboards
                  /\ SampleFacts(img[1]).distinct > 10
                  /\ ~StdWithin(img[1], DefaultTolerance)) => outcome.value = FALSE

\* With the defaults, the contrasted checkerboard of 16 colours was classified
\* non-solid.
C11_Witness ==
    /\ SolidReturned
    /\ img = Some("board")
    /\ args.tolerance = DefaultTolerance
    /\ args.unique_color_threshold = DefaultUniqueColors
    /\ outcome = Returned(FALSE)

InEmbed == op = "embed_cover"
AudioExt == Lower(args.audio_path[5])
InputBytes == FileBytes(args.image_path, fs[args.image_path])
\* The image is scaled down by the call in progress.
Resized ==
    /\ args.max_image_side # None
    /\ args.max_image_side[1] >= 1
    /\ Max(InputBytes.w, InputBytes.h) > args.max_image_side[1]
AtomStepReturns ==
    /\ InEmbed /\ pc = "ec_mp4" /\ pc' = "done" /\ outcome'.kind = "return"
    /\ AudioExt \in AtomExtensions
TagsBefore == TagsOf(args.audio_path, fs[args.audio_path])
TagsAfter == fs'[args.audio_path].tags
\* Cover tag, other tags, audio data and idempotence of the atom path.
AtomFrame ==
    /\ Len(TagsAfter[1]["covr"]) = 1
    /\ DOMAIN TagsAfter[1] = DOMAIN TagsBefore[1] \cup {"covr"}
    /\ \A k \in DOMAIN TagsBefore[1] \ {"covr"} : TagsAfter[1][k] = TagsBefore[1][k]
    /\ fs'[args.audio_path].packets = fs[args.audio_path].packets
    /\ \A q \in DOMAIN fs \ {args.audio_path} : q \in DOMAIN fs' /\ fs'[q] = fs[q]
    /\ ("covr" \in DOMAIN TagsBefore[1] /\ TagsBefore[1]["covr"] = TagsAfter[1]["covr"])
          => fs' = fs

\* C12 as stated: on the atom path, after embed_cover returns the cover tag
\* holds exactly one entry whose bytes are those of the input image (of the
\* scaled image when it was resized), all other tags are unchanged, and
\* embedding the same image again changes nothing.
C12_CoverBytesAreInputBytes ==
    [][AtomStepReturns =>
          /\ AtomFrame
          /\ LET data == TagsAfter[1]["covr"][1].data
             IN  IF Resized
                 THEN /\ data.pixels = InputBytes.pixels
                      /\ <<data.w, data.h>> = <<prepared[1].width, prepared[1].height>>
                 ELSE data = InputBytes]_vars

\* C12, amended: ... the cover tag holds exactly one entry, whose bytes are the
\* re-encoding, in the image's own format (JPEG at quality 90, optimized), of the
\* possibly resized input image; all other tags are unchanged, and embedding the
\* same image twice leaves the same tag state as embedding it once.
C12_SingleReencodedCover ==
    [][AtomStepReturns =>
          /\ AtomFrame
          /\ LET data == TagsAfter[1]["covr"][1].data
             IN  /\ data.encoder = "PIL"
                 /\ data.format = InputBytes.format
                 /\ data.pixels = InputBytes.pixels
                 /\ data.quality = (IF data.format = "JPEG" THEN Some(JpegQuality) ELSE None)
                 /\ <<data.w, data.h>> = <<prepared[1].width, prepared[1].height>>
                 /\ ~Resized => <<data.w, data.h>> = <<InputBytes.w, InputBytes.h>>]_vars

\* The second embedding in a row into an atom-based file returned, and the file
\* holds one cover, made by the re-encoding.
C12_Witness ==
    /\ InEmbed /\ pc = "done" /\ outcome.kind = "return"
    /\ Len(handles) = 2
    /\ AudioExt \in AtomExtensions
    /\ Len(fs[args.audio_path].tags[1]["covr"]) = 1
    /\ fs[args.audio_path].tags[1]["covr"][1].data.encoder = "PIL"
    /\ "nam" \in DOMAIN fs[args.audio_path].tags[1]

PictureKey == "metadata_block_picture"
OpusStepReturns ==
    /\ InEmbed /\ pc = "ec_opus" /\ pc' = "done" /\ outcome'.kind = "return"
    /\ AudioExt = OpusExtension
OtherComments(tags) == SelectSeq(tags, LAMBDA c : Lower(c[1]) # PictureKey)
PictureComments(tags) == SelectSeq(tags, LAMBDA c : Lower(c[1]) = PictureKey)
PictureStored ==
    /\ Len(PictureComments(TagsAfter)) = 1
    /\ LET pic == PictureParse(B64Decode(PictureComments(TagsAfter)[1][2]))
       IN  /\ pic.width = prepared[1].width
           /\ pic.height = prepared[1].height
           /\ pic.depth = 24
           /\ ~Resized => <<pic.width, pic.height>> = <<InputBytes.w, InputBytes.h>>

\* C13 as stated: on the comment-block path every tag comment present before
\* the call, under every key, is still present with the same value after it,
\* and the picture comment is a single value whose decoded structure carries
\* the image's width and height and a depth of 24.
C13_EveryCommentKept ==
    [][OpusStepReturns =>
          /\ \A i \in 1..Len(TagsBefore) : \E j \in 1..Len(TagsAfter) :
                TagsAfter[j] = TagsBefore[i]
          /\ PictureStored]_vars

\* C13, amended: ... every tag comment present before the call under a key
\* other than metadata_block_picture (compared without case) is still present
\* with the same values after the call; the comments under that key are
\* replaced by the picture comment, stored as a single value whose decoded
\* structure carries the image's width, height and a color depth of 24.
C13_OtherCommentsKept ==
    [][OpusStepReturns =>
          /\ OtherComments(TagsAfter) = OtherComments(TagsBefore)
          /\ fs'[args.audio_path].packets = fs[args.audio_path].packets
          /\ PictureStored]_vars

\* An .opus file that held a title and an older picture got the new picture:
\* the title is there, and one picture comment of the new image's size.
C13_Witness ==
    /\ InEmbed /\ pc = "done" /\ outcome.kind = "return"
    /\ AudioExt = OpusExtension
    /\ Len(OtherComments(fs[args.audio_path].tags)) >= 1
    /\ Len(PictureComments(fs[args.audio_path].tags)) = 1
    /\ PictureComments(fs[args.audio_path].tags)[1][2] # OldPicture
    /\ PictureParse(B64Decode(PictureComments(fs[args.audio_path].tags)[1][2])).width
          = prepared[1].width

ContentFamily == FamilyOf(args.audio_path, fs[args.audio_path])
KnownExtension == AudioExt \in AtomExtensions \cup {OpusExtension}
\* C14: an atom-family extension takes the atom path, .opus the comment-block
\* path, any other extension goes through detection and takes the path of the
\* detected family; when detection finds neither, the operation fails with
\* UnsupportedContainer, and no step of a call that does not return changes
\* the audio file.
C14_DispatchOnExtension ==
    /\ [](InEmbed =>
            /\ pc = "ec_mp4" =>
                  \/ AudioExt \in AtomExtensions
                  \/ ~KnownExtension /\ ContentFamily = "mp4"
            /\ pc = "ec_opus" =>
                  \/ AudioExt = OpusExtension
                  \/ ~KnownExtension /\ ContentFamily = "opus"
            /\ pc = "ec_detect" => ~KnownExtension
            /\ (pc = "done" /\ outcome = Raised("UnsupportedContainer")) =>
                  ~KnownExtension /\ ContentFamily = "other"
            /\ (pc = "done" /\ prepared # None /\ ~KnownExtension
                  /\ ContentFamily = "other") => outcome = Raised("UnsupportedContainer")
            /\ (pc = "done" /\ prepared # None /\ AudioExt \in AtomExtensions
                  /\ outcome.kind = "return") =>
                  "covr" \in DOMAIN fs[args.audio_path].tags[1]
            /\ (pc = "done" /\ prepared # None /\ AudioExt = OpusExtension
                  /\ outcome.kind = "return") =>
                  Len(PictureComments(fs[args.audio_path].tags)) = 1)
    /\ [][(InEmbed /\ op' = "embed_cover" /\ ~(pc' = "done" /\ outcome'.kind = "return"))
            => fs' = fs]_vars

\* A file named .mp3 that is of neither family went through detection and the
\* call failed with UnsupportedContainer.
C14_Witness ==
    /\ InEmbed /\ pc = "done"
    /\ args.audio_path[5] = "mp3"
    /\ prepared # None
    /\ outcome = Raised("UnsupportedContainer")
    /\ fs[args.audio_path].tags = <<>>

\* C15: for w >= 1, h >= 1 and max_image_side m >= 1, if max(w,h) > m the
\* output's longest side is exactly m, both sides are >= 1 and each side is
\* within 1 of side*m/max(w,h); if max(w,h) <= m or no maximum is configured,
\* the output has the size of the input.  The operation does not fail.
C15_ResizeToExactlyMax ==
    (InEmbed /\ pc \in {"ec_dispatch", "done"} /\ args.image_path \in DOMAIN fs
        /\ args.audio_path \in DOMAIN fs) =>
        LET w == InputBytes.w
            h == InputBytes.h
            longest == Max(w, h)
        IN  /\ outcome # Raised("ValueError")
            /\ prepared # None
            /\ IF Resized
               THEN LET m == args.max_image_side[1]
                        ow == prepared[1].width
                        oh == prepared[1].height
                    IN  /\ Max(ow, oh) = m
                        /\ ow >= 1 /\ oh >= 1
                        /\ ow * longest <= w * m /\ w * m < (ow + 1) * longest
                        /\ oh * longest <= h * m /\ h * m < (oh + 1) * longest
               ELSE <<prepared[1].width, prepared[1].height>> = <<w, h>>

Running == main # NoMain
Exited == Running /\ main.pc = "exited"
AudioFiles == {p \in DOMAIN fs : fs[p].kind = "audio"}
Tagged(p) == "tags" \in DOMAIN fs[p]
Said(line) == \E k \in 1..Len(main.printed) : main.printed[k] = line

\* C16: on an input with an audio stream and no video stream the audio is still
\* extracted and written, and the run does not fail.
C16_AudioOnlyStillExtracted ==
    (/\ Exited
     /\ FirstOfType(main.video, "audio") # None
     /\ FirstOfType(main.video, "video") = None) =>
        /\ main.exit = Some(0)
        /\ Said("Extracting audio...")
        /\ AudioFiles # {}

\* The lines a run prints as it goes through its steps, in order.
StepLines == <<"Extracting audio...", "Audio saved to:",
               "Extracting non-solid frame at 10%...", "Image saved to:",
               "Embedding cover into audio...", "Done. Cover embedded into:">>
StepsSaid == SelectSeq(main.printed, LAMBDA l : \E k \in 1..Len(StepLines) : StepLines[k] = l)

\* C17: the steps of a run happen in the order demux, sample, embed; the
\* sampler is started only after the remux has returned, embed_cover only after
\* both have, and with the paths they returned; when a step fails no later step
\* is started and the run exits with the error status.
C17_SequentialPipeline ==
    Running =>
        /\ StepsSaid = SubSeq(StepLines, 1, Len(StepsSaid))
        /\ op = "extract_audio_pure_python" =>
              /\ main.pc \in {"remux", "exited"}
              /\ main.image_out = None
              /\ ~Said("Extracting non-solid frame at 10%...")
              /\ ImageFiles = {}
        /\ op = "extract_non_solid_frame" =>
              /\ main.pc \in {"sample", "exited"}
              /\ main.audio_out = output_filename
              /\ main.audio_out[1] \in AudioFiles
              /\ Said("Audio saved to:")
              /\ ~Said("Embedding cover into audio...")
              /\ \A p \in AudioFiles : ~Tagged(p)
              /\ (main.pc = "sample" /\ pc = "done" /\ outcome.kind = "return") =>
                    outcome.value = saved_path[1]
        /\ op = "embed_cover" =>
              /\ main.pc \in {"embed", "exited"}
              /\ Said("Audio saved to:") /\ Said("Image saved to:")
              /\ args.audio_path = main.audio_out[1]
              /\ main.audio_out = output_filename
              /\ args.image_path = main.image_out[1]
              /\ args.image_path \in ImageFiles
              /\ args.max_image_side = main.max_image_side
        /\ Exited =>
              /\ (op # "is_video_with_audio" /\ op # "") =>
                    (outcome.kind = "raise") = (main.exit = Some(10))
              /\ main.exit = Some(10) =>
                    main.printed[Len(main.printed)] = "An error occurred:"
              /\ (main.exit = Some(0) /\ Said("Embedding cover into audio...")) =>
                    /\ Said("Done. Cover embedded into:")
                    /\ Tagged(main.audio_out[1])

\* A run went through the three steps and ended with the cover embedded.
C17_Witness ==
    /\ Exited
    /\ main.exit = Some(0)
    /\ StepsSaid = StepLines
    /\ op = "embed_cover" /\ outcome = Returned(main.audio_out[1])
    /\ Tagged(main.audio_out[1])

\* C20: sampling and embedding are started only when the extension of the
\* remuxed audio file is one of m4a, mp4, m4b, m4r, opus, the set embed_cover
\* dispatches on by extension; for a codec whose extension is outside the set,
\* a run whose extraction returned ends successfully with the audio file
\* written, no image file and no tag; embed_cover never reaches detection and
\* never fails with UnsupportedContainer.
C20_EmbedOnlyForSupportedExtensions ==
    /\ SupportedExtensions = AtomExtensions \cup {OpusExtension}
    /\ Running =>
        /\ op \in {"extract_non_solid_frame", "embed_cover"} =>
              Lower(main.audio_out[1][5]) \in SupportedExtensions
        /\ (main.pc # "probe" /\ main.pc # "remux" /\ main.audio_out # None
              /\ Lower(main.audio_out[1][5]) \notin SupportedExtensions) =>
              /\ Exited /\ main.exit = Some(0)
              /\ op = "extract_audio_pure_python" /\ outcome = Returned(main.audio_out[1])
              /\ main.audio_out[1] \in AudioFiles
              /\ ~Tagged(main.audio_out[1])
              /\ ImageFiles = {}
              /\ main.image_out = None
        /\ (main.pc \in {"sample", "embed"}
              \/ (Exited /\ op \in {"extract_non_solid_frame", "embed_cover"})) =>
              ExtensionOf(main.video[2].codec) \in SupportedExtensions
        /\ pc # "ec_detect"
        /\ exc # "UnsupportedContainer"
        /\ outcome # Raised("UnsupportedContainer")

\* A run on a video with an mp3 audio stream ended successfully after the
\* extraction, with video.mp3 written, untagged, and no image.
C20_Witness ==
    /\ Exited
    /\ main.exit = Some(0)
    /\ main.audio_out = Some(PlainPath(InputStem, "mp3"))
    /\ PlainPath(InputStem, "mp3") \in AudioFiles
    /\ ImageFiles = {}
    /\ ~Said("Extracting non-solid frame at 10%...")

====
